---- MODULE Spec2Model ----
(***************************************************************************)
(* Download orchestration of the Zenload bot: DownloadManager (admission,  *)
(* priority queue, queue processor, shutdown), DownloadWorker (one job,    *)
(* with its finally block) and ZenloadBot.stop, as asyncio tasks on one    *)
(* event loop.  A step of the model is what one task does between two      *)
(* suspension points.                                                      *)
(*                                                                         *)
(* Manager 0 is the manager ZenloadBot builds (bot.py:32) and hands to the *)
(* message and callback handlers; managers 1..MaxZen are the managers      *)
(* zen_command builds, one per /zen command (command_handlers.py:111).     *)
(* The Application is built without concurrent_updates (bot.py:22), so     *)
(* update handlers are awaited one at a time: at most one handler is       *)
(* inside DownloadManager.process_download at any moment.  stop() runs as  *)
(* a task of its own (bot.py:151) and interleaves with everything.         *)
(***************************************************************************)
EXTENDS Integers, Sequences, FiniteSets, TLC

\* ---------------------------------------------------------------- bounds
MaxJobs == 3
MaxUsers == 2
MaxZen == 2
MaxStops == 1
\* DownloadManager's constructor parameters (defaults 50 and 5), scaled down
max_concurrent_downloads == 2
max_downloads_per_user == 2
\* status updates of one worker: entries its status queue holds at most, and
\* the last instant of the clock (in half seconds)
MaxQueue == 2
MaxTime == 6
\* one call of _make_request: redirects counted, and the hosts and paths of
\* the URLs it can be sent to
MaxRedirects == 4
\* one user's quality keyboards
MaxKeyboards == 3
\* entries put on one manager's queue while no shutdown happens
MaxEntries == 5

Jobs == 1..MaxJobs
Users == 1..MaxUsers
Mgrs == 0..MaxZen
Shared == 0
Keyboards == 1..MaxKeyboards
Entries == 1..MaxEntries

VARIABLES
    \* ---- DownloadManager, one per manager id
    initialized,              \* _initialized
    session,                  \* "none" | "open" | "closed"
    queue_created,            \* download_queue is not None
    download_queue,           \* the PriorityQueue's heap list, of job ids
    unfinished_tasks,         \* the queue's _unfinished_tasks
    queue_processor_running,  \* _queue_processor_running
    proc,                     \* _queue_processor_task: "none" | "get" | "run" | "done"
    current,                  \* the job the processor is awaiting, 0 if none
    active_downloads,         \* user -> set of jobs
    zen_managers,             \* number of managers zen_command has built
    leaked_tasks,             \* live processor tasks _queue_processor_task no longer refers to
    leaked_sessions,          \* open sessions self.session no longer refers to
    \* ---- one DownloadWorker / queue entry per job
    pc,                       \* where the job is
    user,                     \* update.effective_user.id, 0 before submission
    mgr,                      \* the manager the job was submitted to
    priority,                 \* first component of the queue entry
    file_path,                \* the running worker's local file_path is not None
    file_on_disk,             \* a local file of the job exists
    file_empty,               \* that file has no bytes, while download() runs
    outcome,                  \* "none" | "Completed" | "Failed" | "Cancelled"
    pending,                  \* the exception the finally block re-raises when it ends
    cleanup_steps,            \* steps of the running finally block attempted so far
    caught,                   \* the exception the worker's try has caught: "none" | "DownloadError" | "Exception"
    sent,                     \* failure messages issued about the job, until its worker's finally block
    \* ---- ZenloadBot.stop and the cleanup() it awaits
    stop_pc,                  \* "idle" | "cleanup" | "app_stop"
    cleanup_pc,               \* "none" | "await_processor" | "join"
    stops,                    \* stop() calls so far
    timed_out,                \* the 10 s wait_for around cleanup() has fired
    app_running,              \* application.running
    \* ---- the status updates of one DownloadWorker (StatusSpec)
    now,                      \* time.time(), in half seconds
    language,                 \* settings.language of the job's user
    status_queue,             \* _status_queue, of <<status, progress>>
    last_status,              \* _last_status
    last_progress,            \* _last_progress
    last_update_time,         \* _last_update_time
    worker_at,                \* where process_download is
    status_task,              \* _status_task: "get" | "cancelling" | "stopping" | "stopped"
    editing,                  \* caller -> the edit_text it awaits, or None
    last_issued,              \* when the latest edit_text was issued, 0 before the first
    edits_ok,                 \* edit_text calls that have returned
    last_edit,                \* <<status, progress>> of the latest one that returned
    \* ---- one call of InstagramDownloader._make_request (RequestSpec)
    mr_pc,                    \* "idle" | "get" | "backoff" | "returned" | "raised"
    mr_url,                   \* the url argument of the innermost call
    retry_count,              \* its retry_count argument
    answered_429,             \* requests of this call answered 429
    redirects_followed,       \* redirects this call has followed
    mr_error,                 \* what it raised: "none" | "RateLimitError" | "KeyError" | "RequestException"
    \* ---- one user's context.user_data and quality keyboards (KeyboardSpec)
    pending_url,              \* context.user_data.get('pending_url')
    keyboards,                \* keyboard id -> the URL its status message was sent for
    default_quality,          \* settings.default_quality is 'ask'
    submitted,                \* process_download calls made: [by, shown, url]
    expired,                  \* keyboards answered with session_expired
    \* ---- one manager's queue and its _process_queue loop, no shutdown (QueueSpec)
    q_heap,                   \* the PriorityQueue's heap list, of entry ids
    q_entry,                  \* entry -> "none" | "queued" | "running" | "done" | "lost"
    q_unfinished,             \* the queue's _unfinished_tasks
    q_proc,                   \* the loop: "get" | "run"
    q_current,                \* the entry whose worker the loop awaits, 0 if none
    q_escaped                 \* an exception has reached line 284 of the loop

mgr_vars == <<initialized, session, queue_created, leaked_tasks, leaked_sessions, download_queue, unfinished_tasks,
              queue_processor_running, proc, current, active_downloads, zen_managers>>
job_vars == <<pc, user, mgr, priority, file_path, file_on_disk, file_empty, outcome,
              pending, cleanup_steps, caught, sent>>
stop_vars == <<stop_pc, cleanup_pc, stops, timed_out, app_running>>
status_vars == <<now, language, status_queue, last_status, last_progress, last_update_time,
                 worker_at, status_task, editing, last_issued, edits_ok, last_edit>>
main_vars == <<mgr_vars, job_vars, stop_vars>>
request_vars == <<mr_pc, mr_url, retry_count, answered_429, redirects_followed, mr_error>>
keyboard_vars == <<pending_url, keyboards, default_quality, submitted, expired>>
queue_vars == <<q_heap, q_entry, q_unfinished, q_proc, q_current, q_escaped>>
side_vars == <<request_vars, keyboard_vars, queue_vars>>
vars == <<main_vars, status_vars, side_vars>>

\* ------------------------------------------------------- the priority heap
\* Queue entries are (priority, worker, args) tuples.  Tuples compare
\* element by element; DownloadWorker defines no ordering, so comparing two
\* entries of equal priority raises TypeError.
Lt(p, a, b) ==
    IF p[a] < p[b] THEN "T"
    ELSE IF p[a] > p[b] THEN "F"
    ELSE "raise"

Swap(h, i, k) == [h EXCEPT ![i] = h[k], ![k] = h[i]]

\* heapq's siftdown; positions are 0-based as in heapq, h is 1-based
RECURSIVE SiftDown(_, _, _, _)
SiftDown(p, h, startpos, pos) ==
    IF pos <= startpos THEN [heap |-> h, err |-> FALSE]
    ELSE LET parentpos == (pos - 1) \div 2
             c == Lt(p, h[pos + 1], h[parentpos + 1])
         IN  IF c = "raise" THEN [heap |-> h, err |-> TRUE]
             ELSE IF c = "F" THEN [heap |-> h, err |-> FALSE]
             ELSE SiftDown(p, Swap(h, pos + 1, parentpos + 1), startpos, parentpos)

\* heapq's siftup: bubble the smaller child up to a leaf, then siftdown
RECURSIVE SiftUp(_, _, _, _)
SiftUp(p, h, startpos, pos) ==
    LET endpos == Len(h)
        limit == endpos \div 2
        childpos == 2 * pos + 1
    IN  IF pos >= limit THEN SiftDown(p, h, startpos, pos)
        ELSE IF childpos + 1 < endpos
             THEN LET c == Lt(p, h[childpos + 1], h[childpos + 2])
                  IN  IF c = "raise" THEN [heap |-> h, err |-> TRUE]
                      ELSE LET child == IF c = "T" THEN childpos ELSE childpos + 1
                           IN  SiftUp(p, Swap(h, child + 1, pos + 1), startpos, child)
             ELSE SiftUp(p, Swap(h, childpos + 1, pos + 1), startpos, childpos)

\* heappush: the entry is appended first, so it stays in the list when the
\* sift raises
HeapPush(p, h, x) == SiftDown(p, Append(h, x), 0, Len(h))

\* heappop: the last entry replaces the root; when the sift raises, the
\* root that was going to be returned is lost
HeapPop(p, h) ==
    LET n == Len(h)
        rest == SubSeq(h, 1, n - 1)
    IN  IF n = 1 THEN [item |-> h[1], heap |-> <<>>, err |-> FALSE]
        ELSE LET r == SiftUp(p, [rest EXCEPT ![1] = h[n]], 0, 0)
             IN  [item |-> h[1], heap |-> r.heap, err |-> r.err]

\* ------------------------------------------------------------ job states
\* a cancellation that reaches the worker after its finally block has begun
\* is handled like one in the body
InBodyOrFinally == {"download", "send", "reply", "delete"}

InBody == {"download", "send", "reply"}
InFlightPcs == InBody \cup {"delete"}
InFlight(j) == pc[j] \in InFlightPcs
Terminal(j) == pc[j] = "done"
SeqSet(q) == {q[i] : i \in 1..Len(q)}

\* ------------------------------------------- status updates: initial state
\* line 34 (0.5 s) and line 56 (2.0 s), in half seconds
update_interval == 1
edit_timeout == 4

None == <<>>
Languages == {"ru", "en"}
Callers == {"worker", "pump"}
\* time.time() is far from 0, the value lines 34 and 116 give
\* _last_update_time: the first check of line 48 always passes
StartTime == update_interval

\* lines 109-119: the state process_download sets before its first await
StatusInit ==
    /\ now = StartTime
    /\ language = "ru"
    /\ status_queue = <<>>
    /\ last_status = None
    /\ last_progress = None
    /\ last_update_time = 0
    /\ worker_at = "initial"
    /\ status_task = "get"
    /\ editing = [c \in Callers |-> None]
    /\ last_issued = 0
    /\ edits_ok = 0
    /\ last_edit = None

\* instagram.py:22-28 and 48: no call of _make_request is under way
RequestInit ==
    /\ mr_pc = "idle"
    /\ mr_url = None
    /\ retry_count = 0
    /\ answered_429 = 0
    /\ redirects_followed = 0
    /\ mr_error = "none"

\* no URL: what user_data.get('pending_url') gives on empty user_data
NoUrl == "none"

\* user_data is empty, no keyboard is shown, default_quality is 'ask'
\* (user_settings.py:18)
KeyboardInit ==
    /\ pending_url = NoUrl
    /\ keyboards = [k \in Keyboards |-> NoUrl]
    /\ default_quality = "ask"
    /\ submitted = {}
    /\ expired = {}

\* lines 242 and 270: an empty queue, the loop at its first get()
QueueInit ==
    /\ q_heap = <<>>
    /\ q_entry = [e \in Entries |-> "none"]
    /\ q_unfinished = 0
    /\ q_proc = "get"
    /\ q_current = 0
    /\ q_escaped = FALSE

Init ==
    /\ StatusInit
    /\ RequestInit
    /\ KeyboardInit
    /\ QueueInit
    /\ initialized = [m \in Mgrs |-> FALSE]
    /\ session = [m \in Mgrs |-> "none"]
    /\ queue_created = [m \in Mgrs |-> FALSE]
    /\ download_queue = [m \in Mgrs |-> <<>>]
    /\ unfinished_tasks = [m \in Mgrs |-> 0]
    /\ queue_processor_running = [m \in Mgrs |-> FALSE]
    /\ proc = [m \in Mgrs |-> "none"]
    /\ current = [m \in Mgrs |-> 0]
    /\ active_downloads = [m \in Mgrs |-> [u \in Users |-> {}]]
    /\ zen_managers = 0
    /\ leaked_tasks = [m \in Mgrs |-> 0]
    /\ leaked_sessions = [m \in Mgrs |-> 0]
    /\ pc = [j \in Jobs |-> "none"]
    /\ user = [j \in Jobs |-> 0]
    /\ mgr = [j \in Jobs |-> 0]
    /\ priority = [j \in Jobs |-> 0]
    /\ file_path = [j \in Jobs |-> FALSE]
    /\ file_on_disk = [j \in Jobs |-> FALSE]
    /\ file_empty = [j \in Jobs |-> FALSE]
    /\ outcome = [j \in Jobs |-> "none"]
    /\ pending = [j \in Jobs |-> "none"]
    /\ cleanup_steps = [j \in Jobs |-> {}]
    /\ caught = [j \in Jobs |-> "none"]
    /\ sent = [j \in Jobs |-> {}]
    /\ stop_pc = "idle"
    /\ cleanup_pc = "none"
    /\ stops = 0
    /\ timed_out = FALSE
    /\ app_running = TRUE

\* ------------------------------------------------ DownloadManager.process_download
\* lines 302-308: entries whose task is done are removed from the index.
\* Nothing in the repository ever adds an entry to active_downloads.
CleanCompleted(m) == [u \in Users |-> {k \in active_downloads[m][u] : ~Terminal(k)}]

\* line 311: the per-user check reads the index only
EveryoneHasTooMany(m, u) == TRUE

TooManyDownloads(m, u) == Cardinality(CleanCompleted(m)[u]) >= max_downloads_per_user

\* message_handlers.py:95-100 and callback_handlers.py:39-43: an exception
\* that leaves process_download, the TypeError of put() among them, makes the
\* handler tell the user error_occurred
HandlerNotice == "error_occurred"

\* lines 300-327, run on the queue q0 with unfinished count unf0 (the
\* manager's own, or the fresh ones _ensure_initialized has just made)
Admit(m, j, u, q0, unf0) ==
    LET prio == Cardinality(CleanCompleted(m)[u])
        p1 == [priority EXCEPT ![j] = prio]
        r == HeapPush(p1, q0, j)
    IN  /\ active_downloads' = [active_downloads EXCEPT ![m] = CleanCompleted(m)]
        /\ user' = [user EXCEPT ![j] = u]
        /\ mgr' = [mgr EXCEPT ![j] = m]
        /\ IF TooManyDownloads(m, u)
           THEN /\ pc' = [k \in Jobs |-> IF k = j THEN "rejected"
                                         ELSE IF pc[k] = "queued" /\ mgr[k] = m /\ k \notin SeqSet(q0)
                                              THEN "dropped" ELSE pc[k]]
                /\ download_queue' = [download_queue EXCEPT ![m] = q0]
                /\ unfinished_tasks' = [unfinished_tasks EXCEPT ![m] = unf0]
                /\ UNCHANGED <<priority, sent>>
           ELSE /\ pc' = [k \in Jobs |-> IF k = j THEN "queued"
                                         ELSE IF pc[k] = "queued" /\ mgr[k] = m /\ k \notin SeqSet(q0)
                                              THEN "dropped" ELSE pc[k]]
                /\ priority' = p1
                /\ download_queue' = [download_queue EXCEPT ![m] = r.heap]
                /\ unfinished_tasks' = [unfinished_tasks EXCEPT ![m] =
                                            IF r.err THEN unf0 ELSE unf0 + 1]
                /\ sent' = [sent EXCEPT ![j] = IF r.err THEN {HandlerNotice} ELSE {}]

\* lines 250-264: self.session is assigned a new ClientSession; a session
\* it referred to and that was not closed stays open
NewSession(m) ==
    /\ session' = [session EXCEPT ![m] = "open"]
    /\ leaked_sessions' = [leaked_sessions EXCEPT ![m] =
                               IF session[m] = "open" THEN @ + 1 ELSE @]

\* lines 267-271: what _ensure_initialized does once _create_queue is back;
\* a task _queue_processor_task referred to is not cancelled
StartProcessor(m) ==
    /\ leaked_tasks' = [leaked_tasks EXCEPT ![m] =
                            IF proc[m] \in {"get", "run"} THEN @ + 1 ELSE @]
    /\ queue_created' = [queue_created EXCEPT ![m] = TRUE]
    /\ queue_processor_running' = [queue_processor_running EXCEPT ![m] = TRUE]
    /\ proc' = [proc EXCEPT ![m] = "get"]
    /\ current' = [current EXCEPT ![m] = 0]
    /\ initialized' = [initialized EXCEPT ![m] = TRUE]

\* user ids are only names: users are numbered in the order they first appear
KnownOrNext(u) == \A v \in Users : v < u => \E k \in Jobs : user[k] = v

\* lines 300-317: the handler of a rejected submission awaits edit_text
\* inside "async with self._downloads_lock".  It is the only suspension
\* inside that block: put() on the unbounded queue (line 323) returns
\* without suspending.
HoldsDownloadsLock(j) == pc[j] = "rejected"

\* _downloads_lock of manager m is held by a suspended task; the block of
\* cleanup(), lines 352-355, awaits nothing
Locked(m) == \E j \in Jobs : mgr[j] = m /\ HoldsDownloadsLock(j)

\* a caller that does not wait for the call before it: process_download is
\* called while another call is suspended inside it
OverlappingCallMayRun(j) ==
    /\ app_running
    /\ pc[j] = "none"
    /\ \A k \in Jobs : k < j => pc[k] # "none"
    /\ \E k \in Jobs : pc[k] = "creating_queue"

\* update handlers run one at a time, and none runs once the application
\* has stopped
HandlerMayRun(j) ==
    /\ app_running
    /\ pc[j] = "none"
    /\ \A k \in Jobs : k < j => pc[k] # "none"
    /\ \A k \in Jobs : pc[k] # "creating_queue" /\ ~HoldsDownloadsLock(k)

\* process_download, lines 294-327, up to its first real suspension
ProcessDownload(m, j, u) ==
    IF initialized[m]
    THEN /\ Admit(m, j, u, download_queue[m], unfinished_tasks[m])
         /\ UNCHANGED <<initialized, session, queue_created, leaked_tasks, leaked_sessions, queue_processor_running,
                        proc, current>>
    ELSE IF ~queue_created[m]
    THEN \* first initialisation: download_queue is None, nothing to wait for
         /\ NewSession(m)
         /\ StartProcessor(m)
         /\ Admit(m, j, u, <<>>, 0)
    ELSE \* lines 250-266 and 235-238: a new session, then the wait for the
         \* old queue's join()
         /\ NewSession(m)
         /\ pc' = [pc EXCEPT ![j] = "creating_queue"]
         /\ user' = [user EXCEPT ![j] = u]
         /\ mgr' = [mgr EXCEPT ![j] = m]
         /\ UNCHANGED <<initialized, queue_created, leaked_tasks, download_queue, unfinished_tasks,
                        queue_processor_running, proc, current, active_downloads,
                        priority, sent>>

\* MessageHandlers._process_url: a text message with a URL
HandleMessage(j, u) ==
    /\ HandlerMayRun(j)
    /\ UNCHANGED <<status_vars, side_vars>>
    /\ KnownOrNext(u)
    /\ ProcessDownload(Shared, j, u)
    /\ UNCHANGED <<zen_managers, file_path, file_on_disk, file_empty, outcome, pending, caught,
                   cleanup_steps, stop_vars>>

\* CallbackHandlers._handle_quality_callback: a quality button
QualityCallback(j, u) ==
    /\ HandlerMayRun(j)
    /\ UNCHANGED <<status_vars, side_vars>>
    /\ KnownOrNext(u)
    /\ ProcessDownload(Shared, j, u)
    /\ UNCHANGED <<zen_managers, file_path, file_on_disk, file_empty, outcome, pending, caught,
                   cleanup_steps, stop_vars>>

\* CommandHandlers.zen_command: a DownloadManager of its own for this command
ZenCommand(j, u) ==
    /\ HandlerMayRun(j)
    /\ UNCHANGED <<status_vars, side_vars>>
    /\ KnownOrNext(u)
    /\ zen_managers < MaxZen
    /\ zen_managers' = zen_managers + 1
    /\ ProcessDownload(zen_managers + 1, j, u)
    /\ UNCHANGED <<file_path, file_on_disk, file_empty, outcome, pending, caught,
                   cleanup_steps, stop_vars>>

\* _create_queue, lines 238-242, and the rest of process_download: join()
\* has returned or its 5 s timeout has fired; the old queue is replaced
CreateQueueResume(j) ==
    /\ pc[j] = "creating_queue"
    /\ UNCHANGED <<status_vars, side_vars>>
    /\ StartProcessor(mgr[j])
    /\ Admit(mgr[j], j, user[j], <<>>, 0)
    /\ UNCHANGED <<session, leaked_sessions, zen_managers, file_path, file_on_disk, file_empty, outcome, pending, caught,
                   cleanup_steps, stop_vars>>

\* lines 312-317: the edit_text of the rejection is over, the lock is
\* released and process_download returns
RejectionSent(j) ==
    /\ HoldsDownloadsLock(j)
    /\ pc' = [pc EXCEPT ![j] = "refused"]
    /\ UNCHANGED <<mgr_vars, user, mgr, priority, file_path, file_on_disk, file_empty, outcome, pending,
                   cleanup_steps, caught, sent, stop_vars, status_vars, side_vars>>

\* the handler that is suspended inside process_download resumes.  As the
\* handlers build their managers the rejection never happens: nothing adds
\* an entry to active_downloads, so line 311 compares 0 with the limit.
HandlerResumes(j) ==
    IF HoldsDownloadsLock(j) THEN RejectionSent(j) ELSE CreateQueueResume(j)

\* ------------------------------------------------ DownloadManager.rate_limits
\* lines 227-230: one Semaphore(10) per domain
per_host_slots == 10

\* job j's outbound call holds a slot of its host's semaphore: rate_limits
\* is only declared, no code path acquires or releases a semaphore
HoldsHostSlot(j) == FALSE

\* ------------------------------------------------ DownloadManager._process_queue
\* a loop that takes the next entry while a worker is still running
ProcessorTakesWhileRunning(m) == proc[m] \in {"get", "run"}

\* lines 275-277: the loop is at `await self.download_queue.get()`
ProcessorAtGet(m) == proc[m] = "get"

\* lines 277-279: one entry is popped and its worker awaited; a pop that
\* raises is logged (284-285), its entry is lost and the loop goes round
Dispatch(m) ==
    /\ ProcessorAtGet(m)
    /\ UNCHANGED <<status_vars, side_vars>>
    /\ download_queue[m] # <<>>
    /\ LET r == HeapPop(priority, download_queue[m])
       IN  /\ download_queue' = [download_queue EXCEPT ![m] = r.heap]
           /\ IF r.err
              THEN /\ pc' = [pc EXCEPT ![r.item] = "lost"]
                   /\ proc' = [proc EXCEPT ![m] =
                                  IF queue_processor_running[m] THEN "get" ELSE "done"]
                   /\ UNCHANGED current
              ELSE /\ pc' = [pc EXCEPT ![r.item] = "download"]
                   /\ proc' = [proc EXCEPT ![m] = "run"]
                   /\ current' = [current EXCEPT ![m] = r.item]
    /\ UNCHANGED <<initialized, session, queue_created, leaked_tasks, leaked_sessions, unfinished_tasks,
                   queue_processor_running, active_downloads, zen_managers,
                   user, mgr, priority, file_path, file_on_disk, file_empty, outcome,
                   pending, caught, sent, cleanup_steps, stop_vars>>

\* lines 280-292 after the worker has left process_download with exc:
\* task_done() raises ValueError when the count is already 0; only a
\* CancelledError breaks the loop, anything else goes back to the loop test
ProcessorAfterWorker(m, exc, running) ==
    LET td_err == unfinished_tasks[m] <= 0
    IN  /\ unfinished_tasks' = [unfinished_tasks EXCEPT ![m] = IF td_err THEN @ ELSE @ - 1]
        /\ proc' = [proc EXCEPT ![m] =
                       IF exc = "Cancelled" /\ ~td_err THEN "done"
                       ELSE IF running THEN "get" ELSE "done"]
        /\ current' = [current EXCEPT ![m] = 0]

\* ------------------------------------------------ DownloadWorker.process_download
\* a failed unlink that ended the finally block
AfterUnlinkAborting(ok) == IF ok THEN "delete" ELSE "done"

\* lines 191-199: a failed unlink is logged and the block goes on to the
\* deletion of the status message (ok: no unlink has failed)
AfterUnlink(ok) == "delete"

\* lines 173-199: the finally block up to `await status_message.delete()`.
\* The status task has been cancelled and ends in the same scheduling round;
\* the unlink runs only when download() had returned a path.
FinallyBlock(j, out, pend, ok) ==
    /\ outcome' = [outcome EXCEPT ![j] = out]
    /\ pending' = [pending EXCEPT ![j] = pend]
    /\ cleanup_steps' = [cleanup_steps EXCEPT ![j] =
                            {"pump"} \cup (IF file_path[j] THEN {"unlink"} ELSE {})]
    /\ file_on_disk' = [file_on_disk EXCEPT ![j] = IF file_path[j] /\ ok THEN FALSE ELSE @]
    /\ file_empty' = [file_empty EXCEPT ![j] = FALSE]
    /\ pc' = [pc EXCEPT ![j] = AfterUnlink(file_path[j] => ok)]
    /\ caught' = [caught EXCEPT ![j] = "none"]
    /\ sent' = [sent EXCEPT ![j] = {}]

\* lines 199-203 and the return to _process_queue: the deletion of the status
\* message returned, raised (logged, lines 202-203) or was cancelled;
\* whatever was pending when the finally block was entered is raised again,
\* and the worker's locals are gone
WorkerExit(j, cancelled, delete_failed, running) ==
    LET exc == IF cancelled THEN "Cancelled" ELSE pending[j]
    IN  /\ pc' = [pc EXCEPT ![j] = "done"]
        /\ cleanup_steps' = [cleanup_steps EXCEPT ![j] = {}]
        /\ pending' = [pending EXCEPT ![j] = "none"]
        /\ UNCHANGED <<caught, sent>>
        /\ file_path' = [file_path EXCEPT ![j] = FALSE]
        /\ ProcessorAfterWorker(mgr[j], exc, running)

worker_frame == <<initialized, session, queue_created, leaked_tasks, leaked_sessions, download_queue,
                  queue_processor_running, active_downloads, zen_managers,
                  user, mgr, priority, stop_vars>>

\* the extraction step writes the job's local file while download() runs;
\* no downloader looks at its size (instagram.py:296-300 writes whatever
\* body a 200 response has)
ExtractionWritesFile(j) ==
    /\ pc[j] = "download"
    /\ UNCHANGED <<status_vars, side_vars>>
    /\ ~file_on_disk[j]
    /\ file_on_disk' = [file_on_disk EXCEPT ![j] = TRUE]
    /\ \E empty \in BOOLEAN : file_empty' = [file_empty EXCEPT ![j] = empty]
    /\ UNCHANGED <<worker_frame, unfinished_tasks, proc, current, pc, file_path,
                   outcome, pending, caught, sent, cleanup_steps>>

\* line 128: download() returns (metadata, file_path)
DownloadReturns(j) ==
    /\ pc[j] = "download"
    /\ UNCHANGED <<status_vars, side_vars>>
    /\ file_on_disk[j]
    /\ file_path' = [file_path EXCEPT ![j] = TRUE]
    /\ file_empty' = [file_empty EXCEPT ![j] = FALSE]
    /\ pc' = [pc EXCEPT ![j] = "send"]
    /\ UNCHANGED <<worker_frame, unfinished_tasks, proc, current, file_on_disk,
                   outcome, pending, caught, sent, cleanup_steps>>

\* lines 160-171: the message the except clause sends for what it caught
FailureNotice(err) == IF err = "DownloadError" THEN "download_failed" ELSE "error_occurred"

\* lines 160-163 / 167-170: the except clause that matches err calls
\* reply_text with its message and awaits it
Except(j, err) ==
    /\ caught' = [caught EXCEPT ![j] = err]
    /\ sent' = [sent EXCEPT ![j] = @ \cup {FailureNotice(err)}]

\* line 128 raises DownloadError: lines 160-164 send download_failed
DownloadRaises(j) ==
    /\ pc[j] = "download"
    /\ UNCHANGED <<status_vars, side_vars>>
    /\ pc' = [pc EXCEPT ![j] = "reply"]
    /\ file_empty' = [file_empty EXCEPT ![j] = FALSE]
    /\ Except(j, "DownloadError")
    /\ UNCHANGED <<worker_frame, unfinished_tasks, proc, current, file_path, file_on_disk,
                   outcome, pending, cleanup_steps>>

\* line 128 raises something else: lines 167-170 send error_occurred
DownloadRaisesOther(j) ==
    /\ pc[j] = "download"
    /\ UNCHANGED <<status_vars, side_vars>>
    /\ pc' = [pc EXCEPT ![j] = "reply"]
    /\ file_empty' = [file_empty EXCEPT ![j] = FALSE]
    /\ Except(j, "Exception")
    /\ UNCHANGED <<worker_frame, unfinished_tasks, proc, current, file_path, file_on_disk,
                   outcome, pending, cleanup_steps>>

\* lines 132-158: the file is sent and the body ends
SendReturns(j) ==
    /\ pc[j] = "send"
    /\ UNCHANGED <<status_vars, side_vars>>
    /\ \E ok \in BOOLEAN : FinallyBlock(j, "Completed", "none", ok)
    /\ UNCHANGED <<worker_frame, unfinished_tasks, proc, current, file_path>>

\* lines 135-156 raise: lines 167-170 send error_occurred
SendRaises(j) ==
    /\ pc[j] = "send"
    /\ UNCHANGED <<status_vars, side_vars>>
    /\ pc' = [pc EXCEPT ![j] = "reply"]
    /\ Except(j, "Exception")
    /\ UNCHANGED <<worker_frame, unfinished_tasks, proc, current, file_path, file_on_disk, file_empty,
                   outcome, pending, cleanup_steps>>

\* lines 162 / 168: reply_text returns, the failure message is delivered
ReplyReturns(j) ==
    /\ pc[j] = "reply"
    /\ UNCHANGED <<status_vars, side_vars>>
    /\ \E ok \in BOOLEAN : FinallyBlock(j, "Failed", "none", ok)
    /\ UNCHANGED <<worker_frame, unfinished_tasks, proc, current, file_path>>

\* lines 162 / 168: reply_text raises inside the except clause; the
\* exception leaves process_download after the finally block
ReplyRaises(j) ==
    /\ pc[j] = "reply"
    /\ UNCHANGED <<status_vars, side_vars>>
    /\ \E ok \in BOOLEAN : FinallyBlock(j, "Failed", "Exception", ok)
    /\ UNCHANGED <<worker_frame, unfinished_tasks, proc, current, file_path>>

\* line 200 returns
DeleteReturns(j) ==
    /\ pc[j] = "delete"
    /\ UNCHANGED <<status_vars, side_vars>>
    /\ WorkerExit(j, FALSE, FALSE, queue_processor_running[mgr[j]])
    /\ UNCHANGED <<worker_frame, file_on_disk, file_empty, outcome>>

\* line 200 raises: logged at 202-203
DeleteRaises(j) ==
    /\ pc[j] = "delete"
    /\ UNCHANGED <<status_vars, side_vars>>
    /\ WorkerExit(j, FALSE, TRUE, queue_processor_running[mgr[j]])
    /\ UNCHANGED <<worker_frame, file_on_disk, file_empty, outcome>>

\* ------------------------------------------------ cancellation of the processor task
\* task.cancel() raises CancelledError at the await the task is suspended
\* at: queue.get() (lines 282-283 break), an await of the worker's body (it
\* is no Exception, so lines 160-171 do not catch it and the finally block
\* runs), or the await of status_message.delete() (line 202 does not catch it)
Cancel(m, running) ==
    IF proc[m] = "get"
    THEN /\ proc' = [proc EXCEPT ![m] = "done"]
         /\ UNCHANGED <<current, unfinished_tasks, pc, outcome, pending, caught, sent, cleanup_steps,
                        file_on_disk, file_empty, file_path>>
    ELSE IF proc[m] = "run" /\ pc[current[m]] \in InBody
    THEN /\ \E ok \in BOOLEAN : FinallyBlock(current[m], "Cancelled", "Cancelled", ok)
         /\ UNCHANGED <<proc, current, unfinished_tasks, file_path>>
    ELSE IF proc[m] = "run" /\ pc[current[m]] = "delete"
    THEN /\ WorkerExit(current[m], TRUE, FALSE, running)
         /\ UNCHANGED <<outcome, file_on_disk, file_empty>>
    ELSE UNCHANGED <<proc, current, unfinished_tasks, pc, outcome, pending, caught, sent, cleanup_steps,
                     file_on_disk, file_empty, file_path>>

\* ------------------------------------------------ ZenloadBot.stop / DownloadManager.cleanup
\* cleanup() awaited without a timeout
CleanupNeverTimesOut == FALSE

\* bot.py:115: cleanup() is awaited under asyncio.wait_for(..., timeout=10.0)
CleanupTimeoutArmed == ~timed_out

\* cleanup going on without awaiting the processor task
ProcessorNotAwaited(m) == TRUE

\* download_manager.py:336-341: cleanup goes on once the processor task is done
ProcessorTaskDone(m) == proc[m] \in {"none", "done"}

\* bot.py:94-115 and download_manager.py:331-339: stop() calls cleanup(),
\* which returns at once on a manager that is not initialised, and otherwise
\* clears the running flag, cancels the processor task and awaits it
StopBegin ==
    /\ stop_pc = "idle"
    /\ UNCHANGED <<status_vars, side_vars>>
    /\ stops < MaxStops
    /\ stops' = stops + 1
    /\ timed_out' = FALSE
    /\ IF ~initialized[Shared]
       THEN /\ stop_pc' = "app_stop"
            /\ UNCHANGED <<cleanup_pc, queue_processor_running, proc, current,
                           unfinished_tasks, pc, outcome, pending, caught, sent, cleanup_steps,
                           file_on_disk, file_empty, file_path>>
       ELSE /\ stop_pc' = "cleanup"
            /\ cleanup_pc' = "await_processor"
            /\ queue_processor_running' = [queue_processor_running EXCEPT ![Shared] = FALSE]
            /\ Cancel(Shared, FALSE)
    /\ UNCHANGED <<initialized, session, queue_created, leaked_tasks, leaked_sessions, download_queue, active_downloads,
                   zen_managers, user, mgr, priority, app_running>>

\* download_manager.py:339-346: the processor task is done; cleanup starts
\* the wait for download_queue.join()
CleanupAwaitJoin ==
    /\ stop_pc = "cleanup"
    /\ UNCHANGED <<status_vars, side_vars>>
    /\ cleanup_pc = "await_processor"
    /\ ProcessorTaskDone(Shared)
    /\ cleanup_pc' = "join"
    /\ UNCHANGED <<mgr_vars, job_vars, stop_pc, stops, timed_out, app_running>>

\* download_manager.py:350-361: the index is empty, so no task is cancelled;
\* the session is closed and the manager is marked uninitialised
CleanupFinish ==
    /\ ~Locked(Shared)
    /\ session' = [session EXCEPT ![Shared] = "closed"]
    /\ initialized' = [initialized EXCEPT ![Shared] = FALSE]
    /\ cleanup_pc' = "none"
    /\ stop_pc' = "app_stop"
    /\ UNCHANGED <<queue_created, leaked_tasks, leaked_sessions, download_queue, unfinished_tasks, queue_processor_running,
                   proc, current, active_downloads, zen_managers, job_vars,
                   stops, timed_out, app_running>>

\* download_manager.py:346: join() returns, every counted entry is done
JoinReturns ==
    /\ stop_pc = "cleanup"
    /\ UNCHANGED <<status_vars, side_vars>>
    /\ cleanup_pc = "join"
    /\ unfinished_tasks[Shared] = 0
    /\ CleanupFinish

\* download_manager.py:346-348: the 5 s timeout of the join fires
JoinTimeout ==
    /\ stop_pc = "cleanup"
    /\ UNCHANGED <<status_vars, side_vars>>
    /\ cleanup_pc = "join"
    /\ unfinished_tasks[Shared] > 0
    /\ CleanupFinish

\* bot.py:115-117: the 10 s timeout fires and cancels cleanup().  At the
\* await of the processor task the cancellation is passed on to that task,
\* which ends by `break`, so cleanup resumes without an exception; at the
\* join the CancelledError leaves cleanup (line 347 does not catch it) and
\* stop() logs the timeout.
StopTimeout ==
    /\ stop_pc = "cleanup"
    /\ UNCHANGED <<status_vars, side_vars>>
    /\ CleanupTimeoutArmed
    /\ cleanup_pc = "await_processor" => ~ProcessorTaskDone(Shared)
    /\ timed_out' = TRUE
    /\ IF cleanup_pc = "await_processor"
       THEN /\ Cancel(Shared, queue_processor_running[Shared])
            /\ UNCHANGED <<stop_pc, cleanup_pc>>
       ELSE /\ stop_pc' = "app_stop"
            /\ cleanup_pc' = "none"
            /\ UNCHANGED <<proc, current, unfinished_tasks, pc, outcome, pending, caught, sent,
                           cleanup_steps, file_on_disk, file_empty, file_path>>
    /\ UNCHANGED <<initialized, session, queue_created, leaked_tasks, leaked_sessions, download_queue,
                   queue_processor_running, active_downloads, zen_managers,
                   user, mgr, priority, stops, app_running>>

\* bot.py:121-141: application.stop() and shutdown(), each under a 5 s
\* timeout; _stopping is reset
StopFinish ==
    /\ stop_pc = "app_stop"
    /\ UNCHANGED <<status_vars, side_vars>>
    /\ stop_pc' = "idle"
    /\ app_running' = FALSE
    /\ UNCHANGED <<mgr_vars, job_vars, cleanup_pc, stops, timed_out>>

\* ------------------------------------------------------------ specification
Next ==
    \/ \E j \in Jobs, u \in Users : HandleMessage(j, u)
    \/ \E j \in Jobs, u \in Users : QualityCallback(j, u)
    \/ \E j \in Jobs, u \in Users : ZenCommand(j, u)
    \/ \E j \in Jobs : HandlerResumes(j)
    \/ \E m \in Mgrs : Dispatch(m)
    \/ \E j \in Jobs : ExtractionWritesFile(j)
    \/ \E j \in Jobs : DownloadReturns(j)
    \/ \E j \in Jobs : DownloadRaises(j)
    \/ \E j \in Jobs : DownloadRaisesOther(j)
    \/ \E j \in Jobs : SendReturns(j)
    \/ \E j \in Jobs : SendRaises(j)
    \/ \E j \in Jobs : ReplyReturns(j)
    \/ \E j \in Jobs : ReplyRaises(j)
    \/ \E j \in Jobs : DeleteReturns(j)
    \/ \E j \in Jobs : DeleteRaises(j)
    \/ StopBegin
    \/ CleanupAwaitJoin
    \/ JoinReturns
    \/ JoinTimeout
    \/ StopTimeout
    \/ StopFinish

Spec == Init /\ [][Next]_vars

\* DownloadManager.process_download called by overlapping callers: nothing
\* in DownloadManager keeps a second call out while the first is suspended
\* in _ensure_initialized (lines 247-271 take no lock).  The handlers of
\* bot.py do not overlap; this is the manager on its own.
OverlappingCall(j, u) ==
    /\ OverlappingCallMayRun(j)
    /\ UNCHANGED <<status_vars, side_vars>>
    /\ KnownOrNext(u)
    /\ ProcessDownload(Shared, j, u)
    /\ UNCHANGED <<zen_managers, file_path, file_on_disk, file_empty, outcome, pending, caught,
                   cleanup_steps, stop_vars>>

OverlappingNext ==
    \/ Next
    \/ \E j \in Jobs, u \in Users : OverlappingCall(j, u)

OverlappingSpec == Init /\ [][OverlappingNext]_vars

\* The event loop runs every task that is ready and fires every timer that
\* is due: the timeouts of bot.py:115 and download_manager.py:346, the
\* resumption of cleanup() and the rest of stop() are not postponed for
\* ever.  Nothing is assumed about calls into the downloaders or Telegram.
LiveSpec ==
    /\ Spec
    /\ WF_vars(CleanupAwaitJoin)
    /\ WF_vars(JoinReturns)
    /\ WF_vars(JoinTimeout)
    /\ WF_vars(StopTimeout)
    /\ WF_vars(StopFinish)

\* ======================================================= status updates
\* One DownloadWorker's status message: the worker's own update_status
\* calls (lines 125, 132, 157), the _process_status_updates task that line
\* 119 starts, the downloader's progress reports, and the user changing
\* language meanwhile.  Both callers suspend inside update_status at the
\* awaited edit_text; everything else in it runs without suspension.

\* line 37-41: get_message renders in the language the user has now
get_message(lang, status_key, progress) == <<lang, status_key, progress>>

\* the (status_key, percent) pairs the downloaders report (update_progress)
Reported == {<<"status_getting_info", 0>>, <<"status_downloading", 50>>}

\* lines 125, 132, 157: the worker's own calls, by where it is
DirectCall(at) ==
    CASE at = "initial" -> <<"status_getting_info", 0>>
      [] at = "sending" -> <<"status_sending", 0>>
      [] at = "sent"    -> <<"status_sending", 100>>

\* where the worker goes when its update_status call is over
AfterCall(at) ==
    CASE at = "initial" -> "download"
      [] at = "sending" -> "send"
      [] at = "sent"    -> "finally"

\* line 48: the call is dropped when the last update is too recent
Throttled == now - last_update_time < update_interval

\* line 52: the call is dropped when it would render what is shown
NeverUnchanged(new_text, progress) == FALSE

Unchanged(new_text, progress) == new_text = last_status /\ progress = last_progress

\* lines 47-56: update_status up to its await; TRUE in issued when
\* edit_text is called, and then the caller is suspended in it
update_status(c, status_key, progress, issued) ==
    LET new_text == get_message(language, status_key, progress)
    IN  IF Throttled \/ Unchanged(new_text, progress)
        THEN /\ issued = FALSE
             /\ UNCHANGED <<editing, last_issued>>
        ELSE /\ issued = TRUE
             /\ editing' = [editing EXCEPT ![c] =
                                [status_key |-> status_key, progress |-> progress,
                                 new_text |-> new_text, current_time |-> now]]
             /\ last_issued' = now

\* lines 125, 132, 157: the worker calls update_status
WorkerUpdateStatus ==
    /\ worker_at \in {"initial", "sending", "sent"}
    /\ editing["worker"] = None
    /\ \E issued \in BOOLEAN :
          /\ update_status("worker", DirectCall(worker_at)[1], DirectCall(worker_at)[2], issued)
          /\ worker_at' = IF issued THEN worker_at ELSE AfterCall(worker_at)
    /\ UNCHANGED <<now, language, status_queue, last_status, last_progress,
                   last_update_time, status_task, edits_ok, last_edit, main_vars, side_vars>>

\* line 27: asyncio.Queue() has maxsize 0, so full() is never true and
\* put() never waits
FullAtOne(q) == Len(q) >= 1

Full(q) == FALSE

\* lines 95-98: the downloader reports progress while download() runs;
\* put() appends the entry unless the queue is full
ReportProgress(p) ==
    /\ worker_at = "download"
    /\ Len(status_queue) < MaxQueue
    /\ ~Full(status_queue)
    /\ status_queue' = Append(status_queue, p)
    /\ UNCHANGED <<now, language, last_status, last_progress, last_update_time, worker_at,
                   status_task, editing, last_issued, edits_ok, last_edit, main_vars, side_vars>>

\* lines 128-132 / 160-171: download() returns, or raises and the failure
\* message is sent
DownloadEnds(ok) ==
    /\ worker_at = "download"
    /\ worker_at' = IF ok THEN "sending" ELSE "finally"
    /\ UNCHANGED <<now, language, status_queue, last_status, last_progress, last_update_time,
                   status_task, editing, last_issued, edits_ok, last_edit, main_vars, side_vars>>

\* lines 135-157: the file is sent, or the send raises
SendEnds(ok) ==
    /\ worker_at = "send"
    /\ worker_at' = IF ok THEN "sent" ELSE "finally"
    /\ UNCHANGED <<now, language, status_queue, last_status, last_progress, last_update_time,
                   status_task, editing, last_issued, edits_ok, last_edit, main_vars, side_vars>>

\* lines 71-86: the task takes the next report and calls update_status
PumpGet ==
    /\ status_task = "get"
    /\ editing["pump"] = None
    /\ status_queue # <<>>
    /\ status_queue' = Tail(status_queue)
    /\ \E issued \in BOOLEAN :
          update_status("pump", Head(status_queue)[1], Head(status_queue)[2], issued)
    /\ UNCHANGED <<now, language, last_status, last_progress, last_update_time, worker_at,
                   status_task, edits_ok, last_edit, main_vars, side_vars>>

\* the caller resumes after its edit_text; the status task then tests
\* _stop_event (line 71) and ends when it is set
Resume(c) ==
    /\ editing' = [editing EXCEPT ![c] = None]
    /\ worker_at' = IF c = "worker" THEN AfterCall(worker_at) ELSE worker_at
    /\ status_task' = IF c = "pump" /\ status_task = "stopping" THEN "stopped"
                      ELSE status_task

\* lines 56-59: edit_text returns within the timeout
EditReturns(c) ==
    /\ editing[c] # None
    /\ now - editing[c].current_time < edit_timeout
    /\ last_status' = editing[c].new_text
    /\ last_progress' = editing[c].progress
    /\ last_update_time' = editing[c].current_time
    /\ edits_ok' = edits_ok + 1
    /\ last_edit' = <<editing[c].status_key, editing[c].progress>>
    /\ Resume(c)
    /\ UNCHANGED <<now, language, status_queue, last_issued, main_vars, side_vars>>

\* lines 60-61: the 2.0 s of wait_for are over
EditTimesOut(c) ==
    /\ editing[c] # None
    /\ now - editing[c].current_time = edit_timeout
    /\ Resume(c)
    /\ UNCHANGED <<now, language, status_queue, last_status, last_progress, last_update_time,
                   last_issued, edits_ok, last_edit, main_vars, side_vars>>

\* update_status without its except clauses: the exception of edit_text
\* reaches the caller, and process_download goes to its finally block
EditRaisesPropagates(c) ==
    /\ editing[c] # None
    /\ editing' = [editing EXCEPT ![c] = None]
    /\ worker_at' = IF c = "worker" THEN "finally" ELSE worker_at
    /\ UNCHANGED <<now, language, status_queue, last_status, last_progress, last_update_time,
                   status_task, last_issued, edits_ok, last_edit, main_vars, side_vars>>

\* lines 62-66: edit_text raises (BadRequest, NetworkError, ...)
EditRaises(c) ==
    /\ editing[c] # None
    /\ Resume(c)
    /\ UNCHANGED <<now, language, status_queue, last_status, last_progress, last_update_time,
                   last_issued, edits_ok, last_edit, main_vars, side_vars>>

\* line 177: the sentinel of the finally block
STOP == <<"STOP", 0>>

\* lines 173-180: the finally block sets _stop_event, puts the sentinel,
\* cancels the status task and awaits it
StatusFinally ==
    /\ worker_at = "finally"
    /\ worker_at' = "joining"
    /\ status_queue' = Append(status_queue, STOP)
    /\ status_task' = "cancelling"
    /\ UNCHANGED <<now, language, last_status, last_progress, last_update_time, editing,
                   last_issued, edits_ok, last_edit, main_vars, side_vars>>

\* lines 90-91: CancelledError is raised at the task's await, in edit_text
\* if it is there, and ends the task
PumpCancelled ==
    /\ status_task = "cancelling"
    /\ status_task' = "stopped"
    /\ editing' = [editing EXCEPT !["pump"] = None]
    /\ UNCHANGED <<now, language, status_queue, last_status, last_progress, last_update_time,
                   worker_at, last_issued, edits_ok, last_edit, main_vars, side_vars>>

\* lines 73-86: the get() that wait_for wraps had already returned an entry
\* when the cancellation arrived.  asyncio.wait_for before Python 3.12 then
\* returns the entry and drops the cancellation; from 3.12 on it raises
\* (PumpCancelled).  The task goes on with the entry: it ends at the
\* sentinel, and calls update_status for a report.
PumpKeepsEntry ==
    /\ status_task = "cancelling"
    /\ editing["pump"] = None
    /\ status_queue' = Tail(status_queue)
    /\ IF Head(status_queue) = STOP
       THEN /\ status_task' = "stopped"
            /\ UNCHANGED <<editing, last_issued>>
       ELSE \E issued \in BOOLEAN :
               /\ update_status("pump", Head(status_queue)[1], Head(status_queue)[2], issued)
               /\ status_task' = IF issued THEN "stopping" ELSE "stopped"
    /\ UNCHANGED <<now, language, last_status, last_progress, last_update_time, worker_at,
                   edits_ok, last_edit, main_vars, side_vars>>

\* lines 180-203: the awaited task has ended; the state is cleared and the
\* status message deleted
StatusTaskJoined ==
    /\ worker_at = "joining"
    /\ status_task = "stopped"
    /\ worker_at' = "done"
    /\ last_status' = None
    /\ last_progress' = None
    /\ UNCHANGED <<now, language, status_queue, last_update_time, status_task, editing,
                   last_issued, edits_ok, last_edit, main_vars, side_vars>>

\* callback_handlers.py:120-122: the user picks another language
SetLanguage(l) ==
    /\ worker_at # "done"
    /\ l # language
    /\ language' = l
    /\ UNCHANGED <<now, status_queue, last_status, last_progress, last_update_time, worker_at,
                   status_task, editing, last_issued, edits_ok, last_edit, main_vars, side_vars>>

\* half a second passes; wait_for fires its timeout when it is due
Tick ==
    /\ worker_at # "done"
    /\ now < MaxTime
    /\ \A c \in Callers : editing[c] # None => now - editing[c].current_time < edit_timeout
    /\ now' = now + 1
    /\ UNCHANGED <<language, status_queue, last_status, last_progress, last_update_time,
                   worker_at, status_task, editing, last_issued, edits_ok, last_edit, main_vars, side_vars>>

StatusNext ==
    \/ WorkerUpdateStatus
    \/ \E p \in Reported : ReportProgress(p)
    \/ \E ok \in BOOLEAN : DownloadEnds(ok)
    \/ \E ok \in BOOLEAN : SendEnds(ok)
    \/ PumpGet
    \/ \E c \in Callers : EditReturns(c)
    \/ \E c \in Callers : EditTimesOut(c)
    \/ \E c \in Callers : EditRaises(c)
    \/ StatusFinally
    \/ PumpCancelled
    \/ PumpKeepsEntry
    \/ StatusTaskJoined
    \/ \E l \in Languages : SetLanguage(l)
    \/ Tick

StatusSpec == Init /\ [][StatusNext]_vars

\* ============================================ InstagramDownloader._make_request
\* One call of _make_request(url) with the calls it makes of itself.  The
\* upstream host chooses every answer.  The waits (the 2 s between requests,
\* lines 53-57, and the backoff of line 77) are finite sleeps.

\* instagram.py:28
max_retries == 3

Hosts == {"instagram.com", "l.instagram.com"}
Paths == {"/share/r", "/reel/x"}
RequestUrls == Hosts \X Paths
\* the Location header of a redirect: an absolute URL or a path
Locations == RequestUrls \cup Paths

\* lines 82-86: a Location that starts with '/' is joined to the scheme
\* and host of the requested URL
RedirectUrl(url, location) ==
    IF location \in Paths THEN <<url[1], location>> ELSE location

\* lines 48-71: _make_request(url, rc) up to its requests.get
MakeRequestCall(url, rc) ==
    /\ mr_url' = url
    /\ retry_count' = rc
    /\ IF rc >= max_retries
       THEN mr_pc' = "raised" /\ mr_error' = "RateLimitError"
       ELSE mr_pc' = "get" /\ mr_error' = mr_error

\* a caller (line 155) awaits _make_request(url)
MakeRequest(url) ==
    /\ mr_pc = "idle"
    /\ MakeRequestCall(url, 0)
    /\ UNCHANGED <<answered_429, redirects_followed, main_vars, status_vars, keyboard_vars, queue_vars>>

\* lines 73-77: the answer is 429 and the call sleeps 5, 10 or 20 s
Answer429 ==
    /\ mr_pc = "get"
    /\ mr_pc' = "backoff"
    /\ answered_429' = answered_429 + 1
    /\ UNCHANGED <<mr_url, retry_count, redirects_followed, mr_error,
                   main_vars, status_vars, keyboard_vars, queue_vars>>

\* line 78: the sleep is over, _make_request(url, retry_count + 1)
BackoffOver ==
    /\ mr_pc = "backoff"
    /\ MakeRequestCall(mr_url, retry_count + 1)
    /\ UNCHANGED <<answered_429, redirects_followed, main_vars, status_vars, keyboard_vars, queue_vars>>

\* lines 80-89: the answer is a redirect; _make_request(redirect_url,
\* retry_count) with the count unchanged
AnswerRedirect(location) ==
    /\ mr_pc = "get"
    /\ redirects_followed < MaxRedirects
    /\ redirects_followed' = redirects_followed + 1
    /\ MakeRequestCall(RedirectUrl(mr_url, location), retry_count)
    /\ UNCHANGED <<answered_429, main_vars, status_vars, keyboard_vars, queue_vars>>

\* line 82: a redirect without a Location header raises KeyError
AnswerRedirectWithoutLocation ==
    /\ mr_pc = "get"
    /\ mr_pc' = "raised"
    /\ mr_error' = "KeyError"
    /\ UNCHANGED <<mr_url, retry_count, answered_429, redirects_followed,
                   main_vars, status_vars, keyboard_vars, queue_vars>>

\* line 91: any other answer is returned
AnswerOther ==
    /\ mr_pc = "get"
    /\ mr_pc' = "returned"
    /\ UNCHANGED <<mr_url, retry_count, answered_429, redirects_followed, mr_error,
                   main_vars, status_vars, keyboard_vars, queue_vars>>

\* line 71: requests.get raises (connection error, timeout)
RequestFails ==
    /\ mr_pc = "get"
    /\ mr_pc' = "raised"
    /\ mr_error' = "RequestException"
    /\ UNCHANGED <<mr_url, retry_count, answered_429, redirects_followed,
                   main_vars, status_vars, keyboard_vars, queue_vars>>

RequestNext ==
    \/ \E url \in RequestUrls : MakeRequest(url)
    \/ Answer429
    \/ BackoffOver
    \/ \E location \in Locations : AnswerRedirect(location)
    \/ AnswerRedirectWithoutLocation
    \/ AnswerOther
    \/ RequestFails

RequestSpec == Init /\ [][RequestNext]_vars

\* ================================================ quality keyboards of one user
\* One user's context.user_data, the quality keyboards MessageHandlers has
\* shown them, and the process_download calls made for them.

PostUrls == {"url_a", "url_b"}
Used == "used"

\* the lowest keyboard id not yet given to a status message
NextKeyboard == CHOOSE k \in Keyboards : keyboards[k] = NoUrl /\ \A i \in 1..(k - 1) : keyboards[i] # NoUrl

\* callback_handlers.py:47: the click is answered from the one pending_url
\* slot of user_data; callback_data holds only the format id
\* (keyboard_builder.py:66)
UrlForClick(k) == pending_url

\* message_handlers.py:46-93: a message with a URL.  With formats the URL
\* is stored in user_data (line 70) and, by default_quality, submitted at
\* once (76-84) or offered with a keyboard (87-90); without formats it is
\* submitted (93).
UrlMessage(url, formats) ==
    /\ \E k \in Keyboards : keyboards[k] = NoUrl
    /\ IF formats
       THEN /\ pending_url' = url
            /\ IF default_quality # "ask"
               THEN /\ submitted' = submitted \cup {[by |-> 0, shown |-> url, url |-> url]}
                    /\ UNCHANGED keyboards
               ELSE /\ keyboards' = [keyboards EXCEPT ![NextKeyboard] = url]
                    /\ UNCHANGED submitted
       ELSE /\ submitted' = submitted \cup {[by |-> 0, shown |-> url, url |-> url]}
            /\ UNCHANGED <<pending_url, keyboards>>
    /\ UNCHANGED <<default_quality, expired, main_vars, status_vars, request_vars, queue_vars>>

\* callback_handlers.py:45-83: a click on a quality button of keyboard k.
\* Either answer replaces the keyboard: edit_message_text without a
\* reply_markup, or the worker's status edits of query.message.
QualityClick(k) ==
    /\ keyboards[k] \in PostUrls
    /\ keyboards' = [keyboards EXCEPT ![k] = Used]
    /\ IF UrlForClick(k) = NoUrl
       THEN /\ expired' = expired \cup {k}
            /\ UNCHANGED <<pending_url, submitted>>
       ELSE /\ pending_url' = NoUrl
            /\ submitted' = submitted \cup
                   {[by |-> k, shown |-> keyboards[k], url |-> UrlForClick(k)]}
            /\ UNCHANGED expired
    /\ UNCHANGED <<default_quality, main_vars, status_vars, request_vars, queue_vars>>

\* callback_handlers.py:148-150: the user changes the default quality
SetDefaultQuality(q) ==
    /\ q # default_quality
    /\ default_quality' = q
    /\ UNCHANGED <<pending_url, keyboards, submitted, expired,
                   main_vars, status_vars, request_vars, queue_vars>>

KeyboardNext ==
    \/ \E url \in PostUrls, formats \in BOOLEAN : UrlMessage(url, formats)
    \/ \E k \in Keyboards : QualityClick(k)
    \/ \E q \in {"ask", "best"} : SetDefaultQuality(q)

KeyboardSpec == Init /\ [][KeyboardNext]_vars

\* ================================================ one queue and its loop
\* DownloadManager.process_download's put and _process_queue on one
\* manager that is not shut down, for more entries than Spec affords.

\* line 321: priority = len(self.active_downloads.get(user_id, {})), and
\* nothing adds an entry to active_downloads
entry_priority == [e \in Entries |-> 0]

\* lines 319-327: put() of the next accepted job.  heappush appends the
\* entry before it sifts, and put() counts it only when heappush returned.
QueuePut(e) ==
    /\ q_entry[e] = "none"
    /\ \A d \in Entries : d < e => q_entry[d] # "none"
    /\ LET r == HeapPush(entry_priority, q_heap, e)
       IN  /\ q_heap' = r.heap
           /\ q_unfinished' = IF r.err THEN q_unfinished ELSE q_unfinished + 1
    /\ q_entry' = [q_entry EXCEPT ![e] = "queued"]
    /\ UNCHANGED <<q_proc, q_current, q_escaped, main_vars, status_vars,
                   request_vars, keyboard_vars>>

\* lines 275-279 and 284-285: get() returns an entry and its worker is
\* awaited, or heappop raises after it has removed the root; the exception
\* is logged and the loop goes round
QueueGet ==
    /\ q_proc = "get"
    /\ q_heap # <<>>
    /\ LET r == HeapPop(entry_priority, q_heap)
       IN  /\ q_heap' = r.heap
           /\ IF r.err
              THEN /\ q_entry' = [q_entry EXCEPT ![r.item] = "lost"]
                   /\ q_escaped' = TRUE
                   /\ UNCHANGED <<q_proc, q_current>>
              ELSE /\ q_entry' = [q_entry EXCEPT ![r.item] = "running"]
                   /\ q_proc' = "run"
                   /\ q_current' = r.item
                   /\ UNCHANGED q_escaped
    /\ UNCHANGED <<q_unfinished, main_vars, status_vars, request_vars, keyboard_vars>>

\* lines 279-285: the worker returns or an exception leaves it; task_done()
\* raises ValueError when the count is 0; whatever was raised is logged and
\* the loop goes round
QueueWorkerEnds(raised) ==
    /\ q_proc = "run"
    /\ q_entry' = [q_entry EXCEPT ![q_current] = "done"]
    /\ q_unfinished' = IF q_unfinished = 0 THEN 0 ELSE q_unfinished - 1
    /\ q_escaped' = (q_escaped \/ raised \/ q_unfinished = 0)
    /\ q_proc' = "get"
    /\ q_current' = 0
    /\ UNCHANGED <<q_heap, main_vars, status_vars, request_vars, keyboard_vars>>

QueueNext ==
    \/ \E e \in Entries : QueuePut(e)
    \/ QueueGet
    \/ \E raised \in BOOLEAN : QueueWorkerEnds(raised)

QueueSpec == Init /\ [][QueueNext]_vars

\* ------------------------------------------------------------ properties
InFlightJobs == {j \in Jobs : InFlight(j)}
InFlightOf(u) == {j \in Jobs : InFlight(j) /\ user[j] = u}

\* C1: in every reachable state the number of jobs in flight, summed over
\* all users and over every submission path (text message, quality
\* callback, /zen command), is at most max_concurrent_downloads.
C1_GlobalCap == Cardinality(InFlightJobs) <= max_concurrent_downloads

\* C2: in every reachable state every user has at most
\* max_downloads_per_user jobs in flight, and the user's entry of the
\* active_downloads index holds at most max_downloads_per_user jobs.
C2_PerUserCap ==
    \A u \in Users :
        /\ Cardinality(InFlightOf(u)) <= max_downloads_per_user
        /\ \A m \in Mgrs : Cardinality(active_downloads[m][u]) <= max_downloads_per_user

\* the jobs of user u that manager m has accepted and that are not yet terminal
Unfinished(m, u) ==
    {k \in Jobs : mgr[k] = m /\ user[k] = u /\ (pc[k] = "queued" \/ InFlight(k))}

\* a step in which process_download decides about job j
Decided(j) == pc[j] \in {"none", "creating_queue"} /\ pc'[j] \in {"queued", "rejected"}

\* C3: process_download rejects a submission exactly when the submitting
\* user already has max_downloads_per_user accepted jobs of that manager
\* that are queued or in flight.
C3_RejectsExactlyAtCap ==
    [][\A j \in Jobs :
          Decided(j) =>
              (pc'[j] = "rejected" <=>
                  Cardinality(Unfinished(mgr'[j], user'[j])) >= max_downloads_per_user)]_vars

\* C4: no accepted job is silently dropped, neither by cleanup() nor by the
\* re-creation of the queue, and a job that has ended has one of the
\* outcomes Completed, Failed, Cancelled.
C4_NoAcceptedJobDropped ==
    \A j \in Jobs :
        /\ pc[j] \notin {"dropped", "lost"}
        /\ pc[j] = "done" => outcome[j] \in {"Completed", "Failed", "Cancelled"}

\* C5: a job whose download raised or was cancelled before it returned the
\* path to the worker leaves no local file behind when it becomes terminal.
C5_NoPartialFileLeft ==
    [][\A j \in Jobs :
          (pc[j] = "delete" /\ pc'[j] = "done" /\ ~file_path[j]) => ~file_on_disk'[j]]_vars

\* a job that waited in the queue when cleanup() ran is gone with the queue
\* that _create_queue has replaced
C4_DroppedWithOldQueue ==
    \E j \in Jobs : pc[j] = "dropped" /\ mgr[j] = Shared /\ stops > 0

\* cleanup() of the initialised manager is under way or has closed the session
CleanupStarted == stops > 0 /\ (stop_pc = "cleanup" \/ session[Shared] = "closed")

\* C8: once cleanup() has started, a process_download call enqueues no job,
\* starts no queue processor and starts no worker.
C8_NoAdmissionAfterCleanup ==
    [][CleanupStarted =>
          /\ \A j \in Jobs : (mgr'[j] = Shared /\ pc'[j] = "queued") => pc[j] = "queued"
          /\ proc'[Shared] = "get" => proc[Shared] \in {"get", "run"}
          /\ \A j \in Jobs : (mgr'[j] = Shared /\ pc'[j] = "download") => pc[j] = "download"]_vars

\* C10: whenever a job waits in a queue and fewer than
\* max_concurrent_downloads jobs are in flight, the dispatch loop of that
\* queue is not held up by a running worker.
C10_DispatchWhileSlotsFree ==
    \A m \in Mgrs :
        (download_queue[m] # <<>> /\ Cardinality(InFlightJobs) < max_concurrent_downloads)
            => proc[m] # "run"

\* C6: on every exit of DownloadWorker.process_download all cleanup steps
\* are attempted (pump stopped, file unlinked when the path is known, status
\* message deleted), and a cleanup step that fails stops neither the steps
\* after it nor the dispatch loop.
C6_CleanupAlwaysRuns ==
    /\ [](\A j \in Jobs :
             pc[j] = "delete" =>
                 /\ "pump" \in cleanup_steps[j]
                 /\ file_path[j] => "unlink" \in cleanup_steps[j])
    /\ [][\A j \in Jobs :
             /\ (pc[j] \in InBody /\ pc'[j] \notin InBody) => pc'[j] = "delete"
             /\ (pc[j] # "done" /\ pc'[j] = "done") => pc[j] = "delete"
             /\ (pc[j] = "delete" /\ pc'[j] = "done" /\ queue_processor_running'[mgr[j]])
                    => proc'[mgr[j]] = "get"]_vars

\* the unlink of a job's file has failed and the job is at the deletion of
\* its status message, after an earlier job of the same manager has ended
C6_UnlinkFailedDeleteReached ==
    \E j, k \in Jobs :
        /\ pc[j] = "delete" /\ file_path[j] /\ file_on_disk[j]
        /\ "unlink" \in cleanup_steps[j]
        /\ pc[k] = "done" /\ mgr[k] = mgr[j]

C9_SessionClosedAfterWorkers ==
    [][(session[Shared] # "closed" /\ session'[Shared] = "closed") =>
          \A j \in Jobs : mgr[j] = Shared => ~InFlight(j)]_vars

\* the session is closed and the worker cleanup() cancelled has ended
C9_ClosedAfterCancelledWorker ==
    /\ session[Shared] = "closed"
    /\ \E j \in Jobs : mgr[j] = Shared /\ pc[j] = "done" /\ outcome[j] = "Cancelled"

\* the waiting job the dispatch loop has to take next: minimal priority
\* value, and the earliest submitted among those (job ids are given in the
\* order of submission)
FirstWaiting(m) ==
    CHOOSE j \in SeqSet(download_queue[m]) :
        \A k \in SeqSet(download_queue[m]) :
            priority[j] < priority[k] \/ (priority[j] = priority[k] /\ j <= k)

\* C11: whenever the dispatch loop takes an entry off a queue, the job it
\* starts is a waiting job of minimal priority value and, among those, the
\* one submitted first, for any number of waiting jobs.
C11_MinPriorityThenFifo ==
    [][\A m \in Mgrs :
          (ProcessorAtGet(m) /\ Len(download_queue'[m]) < Len(download_queue[m]))
              => pc'[FirstWaiting(m)] = "download"]_vars

\* C12: the priority value of an accepted job is the number of jobs of the
\* same user that are queued or in flight when it is submitted.
C12_PriorityIsUserCount ==
    [][\A j \in Jobs :
          (Decided(j) /\ pc'[j] = "queued")
              => priority'[j] = Cardinality(Unfinished(mgr'[j], user'[j]))]_vars

\* C13: while no shutdown has been asked for, a waiting job leaves the
\* queue only by being dispatched, so every waiting job is dispatched once
\* the jobs before it have ended.
C13_WaitingJobIsDispatched ==
    [][\A j \in Jobs :
          (pc[j] = "queued" /\ pc'[j] # "queued" /\ stops' = 0) => pc'[j] = "download"]_vars

\* a step in which the task running process_download is cancelled
CancelStep == stops' # stops \/ timed_out' # timed_out

\* C14: a job that ends in failure, its failure message delivered, has had
\* exactly one failure message sent about it, download_failed when the worker
\* caught a DownloadError and error_occurred when it caught anything else, and
\* a job that completes has had no failure message sent about it.
C14_OneFailureMessagePerFailedJob ==
    [][\A j \in Jobs :
          /\ (outcome[j] = "none" /\ outcome'[j] = "Failed" /\ pending'[j] = "none") =>
                 sent[j] = {IF caught[j] = "DownloadError"
                            THEN "download_failed" ELSE "error_occurred"}
          /\ (outcome[j] = "none" /\ outcome'[j] = "Completed") => sent[j] = {}]_vars


\* C15: no exception raised by a downloader or by Telegram during a job
\* leaves DownloadWorker.process_download; only a cancellation may.
C15_OnlyCancellationLeavesWorker ==
    [][\A j \in Jobs :
          (pc[j] = "delete" /\ pc'[j] = "done" /\ ~CancelStep) => pending[j] # "Exception"]_vars

\* the jobs whose call to the upstream host is in progress
OutboundCalls == {j \in Jobs : pc[j] = "download"}

C17_EditsThrottled ==
    [][\A c \in Callers :
          (editing[c] = None /\ editing'[c] # None)
             => now - last_issued >= update_interval]_vars

\* The status task and the worker are both suspended in an edit_text, and
\* the two were issued at the same instant.
C17_BothCallersEditing ==
    /\ editing["worker"] # None
    /\ editing["pump"] # None
    /\ editing["worker"].current_time = editing["pump"].current_time

\* C18: at most per_host_slots outbound calls to one host are in progress at
\* any instant (all jobs taken to address the same host), and every call in
\* progress holds a slot of that host.
C18_PerHostSlots ==
    /\ Cardinality(OutboundCalls) <= per_host_slots
    /\ \A j \in OutboundCalls : HoldsHostSlot(j)

\* C19: of the jobs submitted to one manager at most one is in flight, so a
\* second user's job is dispatched only after the first job has left its
\* worker's finally block.
C19_OneJobAtATimePerManager ==
    \A m \in Mgrs : Cardinality({j \in Jobs : mgr[j] = m /\ InFlight(j)}) <= 1

\* two users have submitted to the bot's manager; the first job has ended
\* and the second is in flight
C19_SecondUserRunsAfterFirst ==
    \E j, k \in Jobs :
        /\ j < k /\ mgr[j] = Shared /\ mgr[k] = Shared /\ user[j] # user[k]
        /\ pc[j] = "done" /\ InFlight(k)

C21_SendsOnlyNonEmptyFile ==
    [][\A j \in Jobs :
          (pc[j] = "download" /\ pc'[j] = "send") =>
              (file_on_disk[j] /\ ~file_empty[j])]_vars

\* C22: once the worker's finally block has requested the stop, no
\* edit_text is issued any more, and so none after the status message has
\* been deleted; the status task ends.
C22_NoEditAfterStopRequested ==
    [][\A c \in Callers :
          (editing[c] = None /\ editing'[c] # None) =>
              worker_at \notin {"joining", "done"}]_vars

\* a step appends to the status queue at its end, and takes from its front
\* the entry the status task then calls update_status for
QueueIsFifo ==
    /\ (Len(status_queue') > Len(status_queue)) =>
           (SubSeq(status_queue', 1, Len(status_queue)) = status_queue)
    /\ (Len(status_queue') < Len(status_queue)) =>
           /\ status_queue' = Tail(status_queue)
           /\ (editing["pump"] = None /\ editing'["pump"] # None) =>
                  (<<editing'["pump"].status_key, editing'["pump"].progress>>
                      = Head(status_queue))

\* C23: a progress report is accepted at once whatever the status task is
\* doing, also while its edit_text is outstanding; reports are appended at
\* the end of the queue, and the status task takes them from its front, so
\* it calls update_status for them in the order they were reported.
C23_ReportsNeverWaitAndKeepOrder ==
    /\ [](\A p \in Reported :
             (worker_at = "download" /\ Len(status_queue) < MaxQueue)
                => ENABLED ReportProgress(p))
    /\ [][QueueIsFifo]_vars

\* The status task is suspended in an edit_text that is overdue, and two
\* reports made meanwhile wait in the queue.
C23_ReportsQueuedBehindSlowEdit ==
    /\ editing["pump"] # None
    /\ now - editing["pump"].current_time = edit_timeout
    /\ Len(status_queue) = 2
    /\ worker_at = "download"

\* an edit_text of caller c ends in this step without having succeeded,
\* and not by the cancellation of the status task
EditFails(c) ==
    /\ editing[c] # None
    /\ editing'[c] = None
    /\ edits_ok' = edits_ok
    /\ status_task # "cancelling"

FailedEditIsIgnored(c) ==
    /\ last_issued' = last_issued
    /\ editing'[c] = None
    /\ (c = "worker") => (worker_at' = AfterCall(worker_at))
    /\ (c = "pump") => (worker_at' = worker_at /\ status_task' \in {status_task, "stopped"})
    /\ status_queue' = status_queue

\* C24: a status edit that fails (BadRequest, the 2 s timeout, any other
\* exception) is not retried and leaves the job on its path: update_status
\* returns, the worker goes on to the step that follows the call (download,
\* send, the end of the job) exactly as after a successful edit, and the
\* status task goes on with its queue.
C24_FailedEditChangesNothing == [][\A c \in Callers : EditFails(c) => FailedEditIsIgnored(c)]_vars

\* the file has been sent although every status edit so far has failed
C24_SentAfterFailedEdits ==
    /\ worker_at = "sent"
    /\ edits_ok = 0
    /\ last_issued > 0
    /\ editing = [c \in Callers |-> None]

\* the job states in the order of the lifecycle: waiting for admission and
\* in the queue (Queued), taken by the dispatch loop and extracting
\* (Admitted, FetchingInfo, Downloading), sending, the failure message, the
\* end of the finally block, and the states nothing leaves
LifecycleSteps ==
    {<<"none", "creating_queue">>, <<"none", "queued">>, <<"none", "rejected">>,
     <<"creating_queue", "queued">>, <<"creating_queue", "rejected">>,
     <<"rejected", "refused">>,
     <<"queued", "download">>, <<"queued", "lost">>, <<"queued", "dropped">>,
     <<"download", "send">>, <<"download", "reply">>, <<"download", "delete">>,
     <<"send", "reply">>, <<"send", "delete">>,
     <<"reply", "delete">>,
     <<"delete", "done">>}

LifecycleStep(j) ==
    /\ (pc'[j] # pc[j]) => (<<pc[j], pc'[j]>> \in LifecycleSteps)
    /\ (pc'[j] = "send" /\ pc[j] # "send") => (pc[j] = "download" /\ file_path'[j])
    /\ (outcome'[j] # outcome[j]) => (outcome[j] = "none" /\ pc[j] \in InBody /\ pc'[j] = "delete")
    /\ (outcome'[j] = "Completed" /\ outcome[j] # "Completed") => (pc[j] = "send")
    /\ (outcome[j] # "none") => (sent'[j] = {} /\ pc'[j] \in {"delete", "done"})
    /\ (pc[j] = "done") => (outcome[j] # "none" /\ outcome'[j] = outcome[j])

\* C25: a job moves through its lifecycle in order (queued, taken by the
\* dispatch loop, extracting, sending, terminal): the file is sent only
\* once download() has returned a path, the outcome Completed is set only
\* by a send that returned, an outcome once set never changes, and after it
\* the job sends nothing more and only finishes its cleanup.
C25_LifecycleInOrder == [][\A j \in Jobs : LifecycleStep(j)]_vars

\* one job has completed, one has failed and a third is being sent
C25_AllOutcomesSeen ==
    \E j, k, l \in Jobs :
        /\ pc[j] = "done" /\ outcome[j] = "Completed"
        /\ pc[k] = "done" /\ outcome[k] = "Failed"
        /\ pc[l] = "send"

C30_JobCarriesClickedUrl ==
    /\ \A s \in submitted : s.url = s.shown
    /\ \A k \in expired : ~\E s \in submitted : s.by = k

\* C28: once an exception has escaped a worker, get() or task_done() and
\* been logged by the loop, the loop is still taking entries, and every
\* entry that waits in the queue leaves it only to have its worker run.
C28_LoopRunsEveryRemainingJob ==
    [][q_escaped => \A e \in Entries :
                       (q_entry[e] = "queued" /\ q_entry'[e] # "queued") => (q_entry'[e] = "running")]_vars

\* C27: the put() of an accepted job returns without an exception whatever
\* is waiting in the queue, and an entry leaves the queue only by being
\* handed to its worker, once.
C27_EnqueueSucceedsDequeuedOnce ==
    [][\A j \in Jobs :
          /\ (pc[j] # "queued" /\ pc'[j] = "queued") => (sent'[j] = {})
          /\ (pc'[j] = "lost") => (pc[j] = "lost")
          /\ (pc[j] # "download" /\ pc'[j] = "download") => (pc[j] = "queued")]_vars

\* processor tasks of manager m that are running
LiveProcessors(m) == leaked_tasks[m] + (IF proc[m] \in {"get", "run"} THEN 1 ELSE 0)

\* sessions of manager m that are open
OpenSessions(m) == leaked_sessions[m] + (IF session[m] = "open" THEN 1 ELSE 0)

\* C29: a manager never has more than one live queue-processor task or
\* more than one open session, and its queue is replaced only while no
\* processor task reads the old one, whenever process_download is called,
\* the time _ensure_initialized is suspended re-creating the queue after a
\* cleanup() included.
C29_OneProcessorQueueSession ==
    /\ \A m \in Mgrs : LiveProcessors(m) <= 1 /\ OpenSessions(m) <= 1
    /\ \A j \in Jobs : pc[j] = "creating_queue" =>
           proc[mgr[j]] \notin {"get", "run"}

====
